---- MODULE Spec2Model ----
(***************************************************************************)
(* Model of package cl (src/cl/compile.go): the lowering of a go/ssa       *)
(* package to an llssa package by NewPackage.                              *)
(*                                                                         *)
(* One behaviour is one call of NewPackage on one source package.  The     *)
(* source package is drawn in Init; the actions are the steps of           *)
(* NewPackage: collecting and sorting the members, the declare loop, the   *)
(* deferred body builds, the block sweep, the on-demand resolution of      *)
(* operands (an explicit stack of the instructions being lowered) and the  *)
(* emission of target operations.  A Go panic unwinds through the deferred *)
(* function of the body build and out of NewPackage.                       *)
(*                                                                         *)
(* Block indices are the 0-based BasicBlock.Index of the source; the       *)
(* position of an instruction inside its block is 1-based.                 *)
(***************************************************************************)
EXTENDS Integers, Sequences, FiniteSets, TLC

\* ---------------------------------------------------------------- bounds

\* Largest number of positioned (non-synthetic) members of a drawn package.
MaxMembers == 3
\* Largest number of non-terminator instructions of a generated body.
MaxInstrs == 2

\* ------------------------------------------------------------- constants

fnNormal == 0
fnHasVArg == 1
fnUnsafeInit == 2

\* llssa.NameValist, the reserved name of the variadic marker parameter.
NameValist == "__llgo_va_list"

\* The zero llssa.Expr, a nil llssa.Function, a nil llssa.Package, no panic,
\* the value of a constant that carries none, no source instruction.
NilExpr == [e |-> "None"]
NilFn == [name |-> "", id |-> 0]
NilPkg == [Name |-> "", Path |-> ""]
NoErr == [site |-> "", msg |-> ""]
NilConst == "nil"
NoInstr == <<-1, 0>>

\* ------------------------------------------------------- source values

Const(v) == [vk |-> "Const", val |-> v]
Global(n) == [vk |-> "Global", pkg |-> "main", name |-> n]
Function(p, n, r, ps) == [vk |-> "Function", pkg |-> p, name |-> n, recv |-> r, params |-> ps]
Parameter(i) == [vk |-> "Parameter", idx |-> i]
Ref(b, i) == [vk |-> "Instr", id |-> <<b, i>>]
FreeVar == [vk |-> "FreeVar"]

UnsafeInit == Function("unsafe", "init", FALSE, <<>>)
FnF == Function("main", "f", FALSE, <<"x">>)
FnFprintf == Function("main", "fprintf", FALSE, <<"stream", "format", NameValist>>)

\* ------------------------------------------------- source instructions

\* An instruction: its kind and its operands in the order the lowerer reads
\* them.  For a Call, ops[1] is call.Value and the rest is call.Args.
Instr(k, os) == [kind |-> k, ops |-> os]
Block(ix, is, ss) == [Index |-> ix, Instrs |-> is, Succs |-> ss]

\* The kinds that are both ssa.Instruction and ssa.Value (instrAndValue);
\* Phi stands for those of them without a lowering rule.
ValueKinds == {"Call", "BinOp", "UnOp", "IndexAddr", "Alloc", "Phi"}
\* The other instructions; RunDefers stands for those without a rule.
EffectKinds == {"Store", "Jump", "Return", "If", "RunDefers"}

\* ------------------------------------------------------ source members

FuncMember(n, pos, gen, ps, bs) == [name |-> n, kind |-> "Function", pos |-> pos, generic |-> gen, recv |-> FALSE, params |-> ps, blocks |-> bs]
GlobalMember(n, pos) == [name |-> n, kind |-> "Global", pos |-> pos, generic |-> FALSE, recv |-> FALSE, params |-> <<>>, blocks |-> <<>>]
TypeMember(n, pos) == [name |-> n, kind |-> "Type", pos |-> pos, generic |-> FALSE, recv |-> FALSE, params |-> <<>>, blocks |-> <<>>]

\* The synthetic package initializer as go/ssa builds it: guarded by
\* init$guard when the package has that member, and calling unsafe.init.
InitBody(guard) ==
    IF guard
    THEN << Block(0, << Instr("UnOp", <<Global("init$guard")>>), Instr("If", <<Ref(0, 1)>>) >>, <<2, 1>>),
            Block(1, << Instr("Store", <<Global("init$guard"), Const("1")>>), Instr("Call", <<UnsafeInit>>), Instr("Jump", <<>>) >>, <<2>>),
            Block(2, << Instr("Return", <<>>) >>, <<>>) >>
    ELSE << Block(0, << Instr("Call", <<UnsafeInit>>), Instr("Return", <<>>) >>, <<>>) >>

\* A body of main that uses what the package has: a call of f, a store to
\* g, a call of the variadic fprintf with no variadic argument.
MainInstrs(S) ==
    (IF "f" \in S THEN << Instr("Call", <<FnF, Const("1")>>) >> ELSE <<>>)
    \o (IF "g" \in S THEN << Instr("Store", <<Global("g"), IF "f" \in S THEN Ref(0, 1) ELSE Const("1")>>) >> ELSE <<>>)
    \o (IF "fprintf" \in S THEN << Instr("Call", <<FnFprintf, Const("1"), Const("1"), Const(NilConst)>>) >> ELSE <<>>)
    \o << Instr("Return", <<>>) >>

FBody == << Block(0, << Instr("BinOp", <<Parameter(0), Const("1")>>), Instr("Return", <<Ref(0, 1)>>) >>, <<>>) >>
GenericBody == << Block(0, << Instr("Phi", <<>>), Instr("Return", <<Parameter(0)>>) >>, <<>>) >>

\* The positioned members a package may have.
SourceNames == {"main", "f", "G", "T", "g", "fprintf"}

SourceMember(n, pos, S) ==
    CASE n = "main" -> FuncMember("main", pos, FALSE, <<>>, << Block(0, MainInstrs(S), <<>>) >>)
      [] n = "f" -> FuncMember("f", pos, FALSE, <<"x">>, FBody)
      [] n = "G" -> FuncMember("G", pos, TRUE, <<"x">>, GenericBody)
      [] n = "T" -> TypeMember("T", pos)
      [] n = "g" -> GlobalMember("g", pos)
      [] n = "fprintf" -> FuncMember("fprintf", pos, FALSE, <<"stream", "format", NameValist>>, <<>>)

Range(s) == {s[i] : i \in DOMAIN s}

RECURSIVE Orders(_)
\* Every sequence that lists the elements of S once each.
Orders(S) == IF S = {} THEN {<<>>} ELSE UNION {{<<x>> \o s : s \in Orders(S \ {x})} : x \in S}

\* Every sequence of at most n different elements of S.
Arrangements(S, n) == UNION {Orders(T) : T \in {U \in SUBSET S : Cardinality(U) <= n}}

\* The package whose positioned members are those of order, at positions
\* 1, 2, ... in that order; init and init$guard are synthetic, at NoPos (0).
MkPackage(order, guard) ==
    LET S == Range(order)
        names == S \cup {"init"} \cup (IF guard THEN {"init$guard"} ELSE {})
    IN  [Path |-> "main",
         Members |-> [n \in names |->
            CASE n = "init" -> FuncMember("init", 0, FALSE, <<>>, InitBody(guard))
              [] n = "init$guard" -> GlobalMember("init$guard", 0)
              [] OTHER -> SourceMember(n, CHOOSE i \in DOMAIN order : order[i] = n, S)]]

\* Packages that differ in their members and in the members' positions.
MemberPackages == {MkPackage(o, TRUE) : o \in Arrangements(SourceNames, MaxMembers)}

\* The instructions that may stand next in a generated body, after value
\* instructions prev: every kind, with operands among the earlier values of
\* the function, a constant, the global g and an unsupported value.
Menu(prev) ==
    LET O == prev \cup {Const("1")}
    IN  {Instr("Alloc", <<>>), Instr("Phi", <<>>), Instr("RunDefers", <<>>), Instr("Call", <<UnsafeInit>>)}
        \cup {Instr("UnOp", <<x>>) : x \in prev \cup {Global("g"), FreeVar}}
        \cup {Instr("BinOp", <<x, y>>) : x \in prev, y \in O}
        \cup {Instr("IndexAddr", <<x, Const("1")>>) : x \in prev}
        \cup {Instr("Call", <<FnF, a>>) : a \in O}
        \cup {Instr("Call", <<FnFprintf, a, Const("1"), Const(NilConst)>>) : a \in O}
        \cup {Instr("Call", <<FnFprintf, Const("1"), Const("1"), Const("1")>>)}
        \cup {Instr("Store", <<Global("g"), v>>) : v \in O}

\* The instructions of the menu that the lowerer cannot lower.
Aborts(i) ==
    \/ i.kind \in {"Phi", "RunDefers"}
    \/ i.kind = "UnOp" /\ i.ops[1] = FreeVar
    \/ i.kind = "Call" /\ i.ops[1] = FnFprintf /\ i.ops[4] # Const(NilConst)

\* The values of a partly generated body that a later instruction may use:
\* the instructions of a value kind with a rule.
Usable(done) == {Ref(d.id[1], d.id[2]) : d \in {e \in Range(done) : e.ins.kind \in ValueKinds \ {"Phi"}}}

RECURSIVE Fill(_, _)
\* Every way to put an instruction of the menu at each of the places slots,
\* after the instructions done; nothing follows an instruction that aborts.
Fill(done, slots) ==
    IF slots = <<>> \/ (done # <<>> /\ Aborts(done[Len(done)].ins)) THEN {done}
    ELSE UNION {Fill(Append(done, [id |-> Head(slots), ins |-> i]), Tail(slots)) : i \in Menu(Usable(done))}

\* The places of a body with n instructions of which the first s are in
\* block 0 and the others in block 1.
Slots(s, n) == [k \in 1..n |-> IF k <= s THEN <<0, k>> ELSE <<1, k - s>>]

RECURSIVE InBlock(_, _)
\* The instructions of block b of a filled body.
InBlock(done, b) ==
    IF done = <<>> THEN <<>>
    ELSE (IF Head(done).id[1] = b THEN <<Head(done).ins>> ELSE <<>>) \o InBlock(Tail(done), b)

\* The condition of the branch that ends the entry block: the last value of
\* the block, or a constant.
Cond(d) ==
    LET us == {k \in DOMAIN d : Ref(0, k) \in Usable(d)}
    IN  IF us = {} THEN Const("1") ELSE Ref(0, CHOOSE k \in us : \A j \in us : j <= k)

\* The bodies of a generated function: one block; two blocks joined by a
\* jump, each with instructions; or an entry block that branches on one of
\* its values over a second block to a third.
BodiesOf(n) ==
    {<< Block(0, InBlock(d, 0) \o <<Instr("Return", <<>>)>>, <<>>) >> : d \in Fill(<<>>, Slots(n, n))}
    \cup {<< Block(0, InBlock(d, 0) \o <<Instr("If", <<Cond(d)>>)>>, <<1, 2>>),
             Block(1, <<Instr("Jump", <<>>)>>, <<2>>),
             Block(2, <<Instr("Return", <<>>)>>, <<>>) >> : d \in Fill(<<>>, Slots(n, n))}
    \cup UNION {{<< Block(0, InBlock(d, 0) \o <<Instr("Jump", <<>>)>>, <<1>>),
                    Block(1, InBlock(d, 1) \o <<Instr("Return", <<>>)>>, <<>>) >> : d \in Fill(<<>>, Slots(s, n))}
                 : s \in 1..(n - 1)}

Bodies == UNION {BodiesOf(n) : n \in 0..MaxInstrs}

\* Packages that differ in the body of main: g, main, f and fprintf at
\* positions 1 to 4 and the initializer without guard.
BodyPackage(body) ==
    [Path |-> "main",
     Members |-> [n \in {"init", "g", "main", "f", "fprintf"} |->
        CASE n = "init" -> FuncMember("init", 0, FALSE, <<>>, InitBody(FALSE))
          [] n = "g" -> GlobalMember("g", 1)
          [] n = "main" -> FuncMember("main", 2, FALSE, <<>>, body)
          [] n = "f" -> FuncMember("f", 3, FALSE, <<"x">>, FBody)
          [] n = "fprintf" -> FuncMember("fprintf", 4, FALSE, <<"stream", "format", NameValist>>, <<>>)]]

BodyPackages == {BodyPackage(b) : b \in Bodies}

Packages == MemberPackages \cup BodyPackages

\* The packages that are translated twice, under different flags: one
\* member and one instruction less than the others.
DebugPackages ==
    {MkPackage(o, TRUE) : o \in Arrangements(SourceNames, MaxMembers - 1)}
    \cup {BodyPackage(b) : b \in UNION {BodiesOf(n) : n \in 0..(MaxInstrs - 1)}}

\* ---------------------------------------------------------------- state

VARIABLES
    goPkg,      \* the source package (pkg): Path and the Members map
    pc,         \* where NewPackage is
    members,    \* the sorted members slice (names)
    mi,         \* index of the declare loop (1-based)
    ret,        \* the target package (ret, ctx.pkg), NilPkg before it is made
    decls,      \* what was declared in ret, in declaration order
    bodies,     \* target function name -> its target blocks (sequences of operations)
    inits,      \* ctx.inits: the deferred body builds
    ini,        \* index of the loop over ctx.inits (1-based)
    ran,        \* the deferred body builds started so far, in order
    fn,         \* ctx.fn: the current target function, or NilFn
    bi,         \* index of the loop over f.Blocks (0-based)
    cur,        \* the block the builder emits into (b.SetBlock)
    ip,         \* position of the sweep in block.Instrs (1-based)
    bvals,      \* ctx.bvals: source instruction -> cached expression
    stack,      \* the instructions being lowered, innermost last
    err,        \* the panic in flight or delivered, NoErr if none
    returned,   \* whether NewPackage returned ret to its caller
    debugInstr, \* the package variable debugInstr
    debugGoSSA, \* the package variable debugGoSSA
    log,        \* what the tracing wrote to the standard error, in order
    run,        \* which call of NewPackage on goPkg this is (1 or 2)
    first,      \* what the first call of NewPackage left, NoRun before it ended
    kindIn,        \* the value handed to funcKind on its own, NoCallee if none
    kindOut        \* <<what funcKind returned for kindIn>>, <<>> before it returned

vars == <<goPkg, pc, members, mi, ret, decls, bodies, inits, ini, ran, fn, bi, cur, ip, bvals, stack, err, returned, debugInstr, debugGoSSA, log, run, first, kindIn, kindOut>>

\* The argument and the result of a call of funcKind on its own.
KindVars == <<kindIn, kindOut>>
NoCallee == [vk |-> "None"]

\* The flags, and what a caller keeps over its calls of NewPackage.
DebugVars == <<debugInstr, debugGoSSA>>
CallerVars == <<run, first>>

\* No call of NewPackage has ended yet.
NoRun == [ended |-> FALSE, flags |-> <<FALSE, FALSE>>, members |-> <<>>, decls |-> <<>>, bodies |-> <<>>, err |-> NoErr, returned |-> FALSE]

\* The state in which a caller that holds one of the packages P calls
\* NewPackage for the first time; SetDebug was not called.
InitWith(P, V) ==
    /\ goPkg \in P
    /\ kindIn \in V
    /\ kindOut = <<>>
    /\ pc = "start"
    /\ members = <<>>
    /\ mi = 1
    /\ ret = NilPkg
    /\ decls = <<>>
    /\ bodies = <<>>
    /\ inits = <<>>
    /\ ini = 1
    /\ ran = <<>>
    /\ fn = NilFn
    /\ bi = 0
    /\ cur = 0
    /\ ip = 1
    /\ bvals = <<>>
    /\ stack = <<>>
    /\ err = NoErr
    /\ returned = FALSE
    /\ debugInstr = FALSE
    /\ debugGoSSA = FALSE
    /\ log = <<>>
    /\ run = 1
    /\ first = NoRun

Init == InitWith(Packages, {NoCallee})

InitDebug == InitWith(DebugPackages, {NoCallee})

\* Lines 36-41.
DbgFlagInstruction == 1
DbgFlagGoSSA == 2
DbgFlagAll == 3

\* dbgFlags & flag, for a flag that is one bit.
HasFlag(dbgFlags, flag) == (dbgFlags \div flag) % 2 = 1

\* Lines 49-52: SetDebug, called before a call of NewPackage.
SetDebug ==
    /\ pc = "start"
    /\ \E dbgFlags \in 0..DbgFlagAll :
          /\ debugInstr' = HasFlag(dbgFlags, DbgFlagInstruction)
          /\ debugGoSSA' = HasFlag(dbgFlags, DbgFlagGoSSA)
    /\ UNCHANGED <<goPkg, pc, members, mi, ret, decls, bodies, inits, ini, ran, fn, bi, cur, ip, bvals, stack, err, returned, log>>
    /\ UNCHANGED CallerVars
    /\ UNCHANGED KindVars

\* The caller keeps what the first call of NewPackage left (a package, or
\* a panic it recovered from) and calls it again on the same package.
Rerun ==
    /\ pc \in {"done", "panicked"}
    /\ run = 1
    /\ first' = [ended |-> TRUE, flags |-> <<debugInstr, debugGoSSA>>, members |-> members, decls |-> decls, bodies |-> bodies, err |-> err, returned |-> returned]
    /\ run' = 2
    /\ pc' = "start"
    /\ members' = <<>>
    /\ mi' = 1
    /\ ret' = NilPkg
    /\ decls' = <<>>
    /\ bodies' = <<>>
    /\ inits' = <<>>
    /\ ini' = 1
    /\ ran' = <<>>
    /\ fn' = NilFn
    /\ bi' = 0
    /\ cur' = 0
    /\ ip' = 1
    /\ bvals' = <<>>
    /\ stack' = <<>>
    /\ err' = NoErr
    /\ returned' = FALSE
    /\ UNCHANGED <<goPkg, log>>
    /\ UNCHANGED DebugVars
    /\ UNCHANGED KindVars

\* ------------------------------------------------------------- NewPackage

RECURSIVE InsertByPos(_, _)
\* One pass of the insertion sort of sort.Slice: m moves left while its
\* position is less than its left neighbour's.
InsertByPos(s, m) ==
    IF s = <<>> THEN <<m>>
    ELSE IF goPkg.Members[m].pos < goPkg.Members[s[Len(s)]].pos
         THEN Append(InsertByPos(SubSeq(s, 1, Len(s) - 1), m), s[Len(s)])
         ELSE Append(s, m)

RECURSIVE SortSlice(_)
\* sort.Slice(members, less by Pos) on a short slice.
SortSlice(s) == IF s = <<>> THEN <<>> ELSE InsertByPos(SortSlice(SubSeq(s, 1, Len(s) - 1)), s[Len(s)])

\* The orders in which ranging over the map pkg.Members may yield its keys.
IterationOrders == Orders(DOMAIN goPkg.Members)

\* Lines 294-316: range over the member map, sort by position, make the
\* target package and the context.
CollectMembers ==
    /\ pc = "start"
    /\ members' \in {SortSlice(o) : o \in IterationOrders}
    /\ ret' = [Name |-> "main", Path |-> goPkg.Path]
    /\ pc' = "declare"
    /\ UNCHANGED <<goPkg, mi, decls, bodies, inits, ini, ran, fn, bi, cur, ip, bvals, stack, err, returned, log>>
    /\ UNCHANGED DebugVars
    /\ UNCHANGED CallerVars
    /\ UNCHANGED KindVars

\* ---------------------------------------------------- declaration registry

\* fullName and funcName of the import code: the package path, a dot and the
\* name; the program entry main.main is named "main".
fullName(pkgPath, name) == pkgPath \o "." \o name
funcName(pkgPath, name) == IF fullName(pkgPath, name) = "main.main" THEN "main" ELSE fullName(pkgPath, name)

\* llssa Package.NewFunc, Package.NewVar: a declaration appended to the package.
NewFunc(name) == Append(decls, [kind |-> "Function", name |-> name])
NewVar(name) == Append(decls, [kind |-> "Global", name |-> name])

\* The handle NewFunc returns: the name and the place in the package.
FuncHandle(name, ds) == [name |-> name, id |-> CHOOSE i \in DOMAIN ds : ds[i] = [kind |-> "Function", name |-> name]]

\* llssa Package.FuncOf, Package.VarOf: the declared handle, or nil.
FuncOf(name) == IF [kind |-> "Function", name |-> name] \in Range(decls) THEN FuncHandle(name, decls) ELSE NilFn
VarDeclared(name) == [kind |-> "Global", name |-> name] \in Range(decls)

\* ------------------------------------------------------------ declare loop

DeclareVars == <<goPkg, members, ret, ini, ran, fn, bi, cur, ip, bvals, stack, returned, debugInstr, debugGoSSA, run, first, kindIn, kindOut>>

\* A line of the trace: what it says and about which name.
Line(tag, name) == [tag |-> tag, name |-> name]

\* Lines 110-112, 119-121: the trace of a declaration under debugInstr.
TraceDecl(tag, name) == IF debugInstr THEN <<Line(tag, name)>> ELSE <<>>

\* The declare loop takes no function for generic.
IsGenericNever(m) == FALSE

\* Line 321: a function with unbound type parameters.
IsGeneric(m) == m.generic

\* The declare loop stops one member early.
DeclareDoneEarly == mi >= Len(members)

\* Line 317: the declare loop has gone through every member.
DeclareDone == mi > Len(members)

\* The body build is put in front of the registered ones.
compileFuncPrepends(f) ==
    LET name == funcName(goPkg.Path, f.name)
    IN  /\ decls' = NewFunc(name)
        /\ bodies' = [n \in DOMAIN bodies \cup {name} |-> IF n = name THEN <<>> ELSE bodies[n]]
        /\ inits' = <<[fn |-> FuncHandle(name, NewFunc(name)), f |-> f.name, name |-> name]>> \o inits
        /\ mi' = mi + 1
        /\ log' = log \o TraceDecl("==> NewFunc", name)
        /\ UNCHANGED <<pc, err>>

\* Lines 117-123, 143: declare the function and register its body build.
compileFunc(f) ==
    LET name == funcName(goPkg.Path, f.name)
    IN  /\ decls' = NewFunc(name)
        /\ bodies' = [n \in DOMAIN bodies \cup {name} |-> IF n = name THEN <<>> ELSE bodies[n]]
        /\ inits' = Append(inits, [fn |-> FuncHandle(name, NewFunc(name)), f |-> f.name, name |-> name])
        /\ mi' = mi + 1
        /\ log' = log \o TraceDecl("==> NewFunc", name)
        /\ UNCHANGED <<pc, err>>

\* Lines 102-104.
compileType(t) ==
    /\ err' = [site |-> "compileType", msg |-> "todo"]
    /\ pc' = "panicked"
    /\ UNCHANGED <<decls, bodies, inits, mi, log>>

\* Lines 107-115: declare the global, initialized to the null of its type.
compileGlobal(g) ==
    /\ decls' = NewVar(fullName(goPkg.Path, g.name))
    /\ mi' = mi + 1
    /\ log' = log \o TraceDecl("==> NewVar", fullName(goPkg.Path, g.name))
    /\ UNCHANGED <<pc, err, bodies, inits>>

\* Lines 317-331: one turn of the declare loop.
DeclareMember ==
    /\ pc = "declare"
    /\ IF DeclareDone
       THEN /\ pc' = "inits"
            /\ UNCHANGED <<decls, bodies, inits, mi, err, log>>
       ELSE LET member == goPkg.Members[members[mi]]
            IN  CASE member.kind = "Function" /\ IsGeneric(member) ->
                        /\ mi' = mi + 1
                        /\ UNCHANGED <<pc, err, decls, bodies, inits, log>>
                  [] member.kind = "Function" /\ ~IsGeneric(member) -> compileFunc(member)
                  [] member.kind = "Type" -> compileType(member)
                  [] member.kind = "Global" -> compileGlobal(member)
    /\ UNCHANGED DeclareVars

\* ------------------------------------------------------- function classifier

\* The classifier does not look for a receiver.
funcKindAnyReceiver(vfn) ==
    IF vfn.vk = "Function"
    THEN IF Len(vfn.params) = 0
         THEN IF vfn.name = "init" /\ vfn.pkg = "unsafe" THEN fnUnsafeInit ELSE fnNormal
         ELSE IF vfn.params[Len(vfn.params)] = NameValist THEN fnHasVArg ELSE fnNormal
    ELSE fnNormal

\* The classifier without the case of unsafe.init.
funcKindNoUnsafeInit(vfn) ==
    IF vfn.vk = "Function" /\ ~vfn.recv /\ Len(vfn.params) > 0 /\ vfn.params[Len(vfn.params)] = NameValist
    THEN fnHasVArg
    ELSE fnNormal

\* Lines 62-78.
funcKind(vfn) ==
    IF vfn.vk = "Function" /\ ~vfn.recv
    THEN IF Len(vfn.params) = 0
         THEN IF vfn.name = "init" /\ vfn.pkg = "unsafe" THEN fnUnsafeInit ELSE fnNormal
         ELSE IF vfn.params[Len(vfn.params)] = NameValist THEN fnHasVArg ELSE fnNormal
    ELSE fnNormal

\* The bound of the parameter lists of the functions handed to funcKind.
MaxParams == 2

RECURSIVE ParamLists(_)
\* The parameter lists of at most n names, the variadic marker among them.
ParamLists(n) ==
    IF n = 0 THEN {<<>>}
    ELSE ParamLists(n - 1) \cup {Append(ps, x) : ps \in {q \in ParamLists(n - 1) : Len(q) = n - 1}, x \in {"x", NameValist}}

\* The callable values handed to funcKind: functions and methods of two
\* packages, named init or not, and values that are no functions.
Callees ==
    {Function(p, n, r, ps) : p \in {"unsafe", "main"}, n \in {"init", "f"}, r \in BOOLEAN, ps \in ParamLists(MaxParams)}
    \cup {Parameter(0), Ref(0, 1), Global("g"), FreeVar}

InitKind == InitWith({MkPackage(<<>>, TRUE)}, Callees)

\* Lines 62-78: funcKind called on kindIn.
Classify ==
    /\ kindIn # NoCallee
    /\ kindOut = <<>>
    /\ kindOut' = <<funcKind(kindIn)>>
    /\ UNCHANGED <<goPkg, pc, members, mi, ret, decls, bodies, inits, ini, ran, fn, bi, cur, ip, bvals, stack, err, returned, log, kindIn>>
    /\ UNCHANGED DebugVars
    /\ UNCHANGED CallerVars

NextKind == Classify

SpecKind == InitKind /\ [][NextKind]_vars

\* ------------------------------------------------------------ body builds

\* The source function of the deferred build that is running (f of the
\* closure), an instruction of it, the target name of it.
CurF == goPkg.Members[inits[ini].f]
CurName == inits[ini].name
InstrOf(id) == CurF.blocks[id[1] + 1].Instrs[id[2]]
IsValueInstr(id) == InstrOf(id).kind \in ValueKinds

BuildVars == <<goPkg, members, mi, ret, decls, inits, returned, debugInstr, debugGoSSA, run, first, kindIn, kindOut>>

\* The outcome of entering the lowerer or the resolver: an expression at
\* once, an instruction to lower first (a new frame), or a panic.
Value(e) == [tag |-> "value", expr |-> e, err |-> NoErr]
Push == [tag |-> "push", expr |-> NilExpr, err |-> NoErr]
Panic(site, msg) == [tag |-> "panic", expr |-> NilExpr, err |-> [site |-> site, msg |-> msg]]

\* The initializer call is asked for in the second block.
doInitSecondBlock(i, name) == i = 1 /\ name = "main"

\* Line 141: the entry block of the program entry function.
doInit(i, name) == i = 0 /\ name = "main"

\* The build has no deferred function: ctx.fn stays.
DeferredFnKept == fn

\* Lines 125-127: what the deferred function leaves in ctx.fn.
DeferredFn == NilFn

\* Lines 332-335 and 124: start the next deferred build, or return.
RunInit ==
    /\ pc = "inits"
    /\ IF ini <= Len(inits)
       THEN /\ fn' = inits[ini].fn
            /\ ran' = Append(ran, inits[ini].name)
            /\ pc' = "body"
            /\ UNCHANGED returned
       ELSE /\ returned' = TRUE
            /\ pc' = "done"
            /\ UNCHANGED <<fn, ran>>
    /\ UNCHANGED <<goPkg, members, mi, ret, decls, bodies, inits, ini, bi, cur, ip, bvals, stack, err, log>>
    /\ UNCHANGED DebugVars
    /\ UNCHANGED CallerVars
    /\ UNCHANGED KindVars

\* Lines 132-137: the dump of the source function under debugGoSSA, then
\* the trace of the build under debugInstr.
TraceBody ==
    (IF debugGoSSA THEN <<Line("WriteTo", inits[ini].f)>> ELSE <<>>)
    \o (IF debugInstr THEN <<Line("==> FuncBody", CurName)>> ELSE <<>>)

\* Lines 128-139: an external function has no body; otherwise the traces
\* and MakeBlocks.
FuncBody ==
    /\ pc = "body"
    /\ LET nblk == Len(CurF.blocks)
       IN  IF nblk = 0
           THEN /\ pc' = "exit"
                /\ UNCHANGED <<bodies, bi, log>>
           ELSE /\ log' = log \o TraceBody
                /\ bodies' = [bodies EXCEPT ![CurName] = [i \in 1..nblk |-> <<>>]]
                /\ bi' = 0
                /\ pc' = "blocks"
    /\ UNCHANGED <<ini, ran, fn, cur, ip, bvals, stack, err>>
    /\ UNCHANGED BuildVars

\* Lines 125-127 and 332: the build returns, its deferred function runs.
ExitInit ==
    /\ pc = "exit"
    /\ fn' = DeferredFn
    /\ ini' = ini + 1
    /\ pc' = "inits"
    /\ UNCHANGED <<bodies, ran, bi, cur, ip, bvals, stack, err, log>>
    /\ UNCHANGED BuildVars

\* Lines 125-127: a panic inside a build runs the deferred function and
\* leaves NewPackage, which has no recover and returns nothing.
Unwind ==
    /\ pc = "unwind"
    /\ fn' = DeferredFn
    /\ pc' = "panicked"
    /\ UNCHANGED <<bodies, ini, ran, bi, cur, ip, bvals, stack, err, log>>
    /\ UNCHANGED BuildVars

\* The operation the builder appends to its block, and the expression it
\* returns for it.
Op(kind, callee, args, targets, src) == [op |-> kind, callee |-> callee, args |-> args, targets |-> targets, src |-> src]
\* The builder puts the operation at the head of its block.
EmittedAtHead(op) == [bodies EXCEPT ![fn.name][cur + 1] = <<op>> \o @]

Emitted(op) == [bodies EXCEPT ![fn.name][cur + 1] = Append(@, op)]
OpExpr == [e |-> "Op", fn |-> fn.name, blk |-> cur, n |-> Len(bodies[fn.name][cur + 1]) + 1]

\* The block build goes on with the cache as it is.
FreshCacheKept == bvals

\* Line 149: the cache a block build starts with.
FreshCache == <<>>

\* Lines 140-141 and 146-153: the next block of the function; SetBlock,
\* a fresh cache, and the initializer call in the entry block of main.
CompileBlock ==
    /\ pc = "blocks"
    /\ IF bi < Len(CurF.blocks)
       THEN LET block == CurF.blocks[bi + 1]
                initFn == FuncOf("main.init")
            IN  /\ cur' = block.Index
                /\ bvals' = FreshCache
                /\ ip' = 1
                /\ IF doInit(bi, CurName)
                   THEN IF initFn = NilFn
                        THEN /\ err' = [site |-> "compileBlock", msg |-> "nil pointer dereference"]
                             /\ pc' = "unwind"
                             /\ UNCHANGED bodies
                        ELSE /\ bodies' = [bodies EXCEPT ![fn.name][block.Index + 1] = Append(@, Op("Call", [e |-> "Func", h |-> initFn], <<>>, <<>>, NoInstr))]
                             /\ pc' = "instrs"
                             /\ UNCHANGED err
                   ELSE /\ pc' = "instrs"
                        /\ UNCHANGED <<bodies, err>>
       ELSE /\ pc' = "exit"
            /\ UNCHANGED <<bodies, cur, ip, bvals, err>>
    /\ UNCHANGED <<ini, ran, fn, bi, stack, log>>
    /\ UNCHANGED BuildVars

\* ---------------------------------------------------------------- lowerer

\* The lowerer does not look into the cache.
CachedNever(id) == FALSE

\* Line 161: the instruction has an expression in the block cache.
Cached(id) == id \in DOMAIN bvals

\* The expression of the instruction is not put into the cache.
CacheWithNothing(id, e) == bvals

\* Line 194: the cache after the instruction got its expression.
CacheWith(id, e) == [x \in DOMAIN bvals \cup {id} |-> IF x = id THEN e ELSE bvals[x]]

\* Under debugGoSSA the lowerer returns after the trace of a call.
compileInstrAndValueTraced(id) ==
    LET iv == InstrOf(id)
    IN  IF id \in DOMAIN bvals THEN Value(bvals[id])
        ELSE IF iv.kind = "Call" /\ (funcKind(iv.ops[1]) = fnUnsafeInit \/ debugGoSSA) THEN Value(NilExpr)
        ELSE IF iv.kind \in {"Call", "BinOp", "UnOp", "IndexAddr", "Alloc"} THEN Push
        ELSE Panic("compileInstrAndValue", iv.kind)

\* The lowerer passes over a kind it has no rule for.
compileInstrAndValueSkips(id) ==
    LET iv == InstrOf(id)
    IN  IF id \in DOMAIN bvals THEN Value(bvals[id])
        ELSE IF iv.kind \in {"Call", "BinOp", "UnOp", "IndexAddr", "Alloc"} /\ ~(iv.kind = "Call" /\ funcKind(iv.ops[1]) = fnUnsafeInit) THEN Push
        ELSE Value(NilExpr)

\* Lines 160-170 and 191-192: a cached instruction gives its expression, a
\* call of unsafe.init gives the zero expression and emits nothing, a kind
\* with a rule is lowered, any other kind panics.
compileInstrAndValue(id) ==
    LET iv == InstrOf(id)
    IN  IF Cached(id) THEN Value(bvals[id])
        ELSE IF iv.kind = "Call" /\ funcKind(iv.ops[1]) = fnUnsafeInit THEN Value(NilExpr)
        ELSE IF iv.kind \in {"Call", "BinOp", "UnOp", "IndexAddr", "Alloc"} THEN Push
        ELSE Panic("compileInstrAndValue", iv.kind)

\* The sweep leaves a value without side effect to the instruction that
\* reads it.
compileInstrOnDemand(id) ==
    IF IsValueInstr(id) THEN (IF InstrOf(id).kind \in {"BinOp", "UnOp", "IndexAddr", "Alloc"} THEN Value(NilExpr) ELSE compileInstrAndValue(id))
    ELSE IF InstrOf(id).kind \in {"Store", "Jump", "Return", "If"} THEN Push
    ELSE Panic("compileInstr", InstrOf(id).kind)

\* Lines 198-203 and 229-231.
compileInstr(id) ==
    IF IsValueInstr(id) THEN compileInstrAndValue(id)
    ELSE IF InstrOf(id).kind \in {"Store", "Jump", "Return", "If"} THEN Push
    ELSE Panic("compileInstr", InstrOf(id).kind)

\* funcOf and varOf of the import code: the handle in the declaration
\* registry; a function or global that was not declared is a failure.
funcOf(v) ==
    LET h == FuncOf(funcName(v.pkg, v.name))
    IN  IF h = NilFn THEN Panic("funcOf", "not declared") ELSE Value([e |-> "Func", h |-> h])
varOf(v) ==
    IF VarDeclared(fullName(v.pkg, v.name)) THEN Value([e |-> "Global", g |-> fullName(v.pkg, v.name)])
    ELSE Panic("varOf", "not declared")

\* Lines 234-257.
compileValue(v) ==
    IF v.vk = "Instr" THEN compileInstrAndValue(v.id)
    ELSE CASE v.vk = "Parameter" ->
                IF v.idx < Len(CurF.params) THEN Value([e |-> "Param", fn |-> fn.name, idx |-> v.idx])
                ELSE Panic("compileValue", v.vk)
           [] v.vk = "Function" -> funcOf(v)
           [] v.vk = "Global" -> varOf(v)
           [] v.vk = "Const" -> Value([e |-> "Const", val |-> v.val])
           [] OTHER -> Panic("compileValue", v.vk)

\* compileValues lowers every argument itself.
compileValuesAll(vals, hasVArg) == Len(vals)

\* Line 271: how many of the arguments compileValues lowers itself.
compileValuesN(vals, hasVArg) == Len(vals) - hasVArg

\* Lines 259-268: the variadic tail is accepted only if it is a constant
\* that carries no value, and then adds nothing.
compileVArgOk(v) == v.vk = "Const" /\ v.val = NilConst

\* Line 277: vals[n] of a variadic call: why the call cannot be emitted, if
\* it cannot (the index is past the slice, or compileVArg has no rule).
VArgFailure(vals, n) ==
    IF n + 1 > Len(vals) THEN [site |-> "compileValues", msg |-> "index out of range"]
    ELSE IF ~compileVArgOk(vals[n + 1]) THEN [site |-> "compileVArg", msg |-> "todo"]
    ELSE NoErr

\* The operands the rule of an instruction resolves, in the order it
\* resolves them (lines 174-175, 178-179, 182, 185-186, 205-206, 218, 224).
Operands(ins) ==
    IF ins.kind = "Call"
    THEN <<ins.ops[1]>> \o SubSeq(Tail(ins.ops), 1, compileValuesN(Tail(ins.ops), funcKind(ins.ops[1])))
    ELSE ins.ops

\* Lines 276-278: the call has a variadic tail.
HasVArgTail(ins) == ins.kind = "Call" /\ funcKind(ins.ops[1]) > 0

\* The branch takes its targets in the other order.
TargetsSwapped(id) ==
    LET succs == CurF.blocks[id[1] + 1].Succs
    IN  CASE InstrOf(id).kind = "Jump" -> <<succs[1]>>
          [] InstrOf(id).kind = "If" -> <<succs[2], succs[1]>>
          [] OTHER -> <<>>

\* Lines 211, 226-227: the target blocks of a terminator, by index.
Targets(id) ==
    LET succs == CurF.blocks[id[1] + 1].Succs
    IN  CASE InstrOf(id).kind = "Jump" -> <<succs[1]>>
          [] InstrOf(id).kind = "If" -> <<succs[1], succs[2]>>
          [] OTHER -> <<>>

LowerVars == <<ini, ran, fn, cur>>

\* The sweep stays at the instruction it has dealt with.
NextInstrSame(i) == i

\* Line 154: the range loop over block.Instrs goes on to the next
\* instruction.
NextInstr(i) == i + 1

\* Lines 171-173: the trace of a call that is lowered, under debugGoSSA.
TraceCall(id) ==
    IF InstrOf(id).kind = "Call" /\ debugGoSSA
    THEN <<Line(">>> Call", IF InstrOf(id).ops[1].vk = "Function" THEN InstrOf(id).ops[1].name ELSE InstrOf(id).ops[1].vk)>>
    ELSE <<>>

\* Lines 154-157: the sweep hands the next instruction of the block to
\* compileInstr; after the last one compileBlock returns.
SweepInstr ==
    /\ pc = "instrs"
    /\ stack = <<>>
    /\ IF ip <= Len(CurF.blocks[bi + 1].Instrs)
       THEN LET o == compileInstr(<<CurF.blocks[bi + 1].Index, ip>>)
            IN  CASE o.tag = "value" ->
                        /\ ip' = NextInstr(ip)
                        /\ UNCHANGED <<stack, err, pc, bi, log>>
                  [] o.tag = "push" ->
                        /\ stack' = << [id |-> <<CurF.blocks[bi + 1].Index, ip>>, vals |-> <<>>] >>
                        /\ log' = log \o TraceCall(<<CurF.blocks[bi + 1].Index, ip>>)
                        /\ UNCHANGED <<ip, err, pc, bi>>
                  [] o.tag = "panic" ->
                        /\ err' = o.err
                        /\ pc' = "unwind"
                        /\ UNCHANGED <<ip, stack, bi, log>>
       ELSE /\ bi' = bi + 1
            /\ pc' = "blocks"
            /\ UNCHANGED <<ip, stack, err, log>>
    /\ UNCHANGED <<bodies, bvals>>
    /\ UNCHANGED LowerVars
    /\ UNCHANGED BuildVars

\* compileValue on the next operand of the instruction being lowered.
ResolveOperand ==
    /\ pc = "instrs"
    /\ stack # <<>>
    /\ LET top == stack[Len(stack)]
           need == Operands(InstrOf(top.id))
       IN  /\ Len(top.vals) < Len(need)
           /\ LET v == need[Len(top.vals) + 1]
                  o == compileValue(v)
              IN  CASE o.tag = "value" ->
                          /\ stack' = [stack EXCEPT ![Len(stack)].vals = Append(@, o.expr)]
                          /\ UNCHANGED <<err, pc, log>>
                    [] o.tag = "push" ->
                          /\ stack' = Append(stack, [id |-> v.id, vals |-> <<>>])
                          /\ log' = log \o TraceCall(v.id)
                          /\ UNCHANGED <<err, pc>>
                    [] o.tag = "panic" ->
                          /\ err' = o.err
                          /\ pc' = "unwind"
                          /\ UNCHANGED <<stack, log>>
    /\ UNCHANGED <<bodies, bvals, bi, ip>>
    /\ UNCHANGED LowerVars
    /\ UNCHANGED BuildVars

\* Lines 176, 180, 183, 187, 190, 194, 207, 212, 221, 228: every operand
\* is resolved; the variadic tail is checked, the operation is emitted, a
\* value goes to the cache and to the instruction that asked for it.
EmitOp ==
    /\ pc = "instrs"
    /\ stack # <<>>
    /\ LET top == stack[Len(stack)]
           ins == InstrOf(top.id)
           need == Operands(ins)
       IN  /\ Len(top.vals) = Len(need)
           /\ IF HasVArgTail(ins) /\ VArgFailure(Tail(ins.ops), Len(need) - 1) # NoErr
              THEN /\ err' = VArgFailure(Tail(ins.ops), Len(need) - 1)
                   /\ pc' = "unwind"
                   /\ UNCHANGED <<bodies, bvals, stack, ip>>
              ELSE /\ bodies' = Emitted(Op(ins.kind, IF ins.kind = "Call" THEN top.vals[1] ELSE NilExpr, IF ins.kind = "Call" THEN Tail(top.vals) ELSE top.vals, Targets(top.id), top.id))
                   /\ bvals' = IF IsValueInstr(top.id) THEN CacheWith(top.id, OpExpr) ELSE bvals
                   /\ IF Len(stack) = 1
                      THEN /\ stack' = <<>>
                           /\ ip' = NextInstr(ip)
                      ELSE /\ stack' = [SubSeq(stack, 1, Len(stack) - 1) EXCEPT ![Len(stack) - 1].vals = Append(@, OpExpr)]
                           /\ UNCHANGED ip
                   /\ UNCHANGED <<err, pc>>
    /\ UNCHANGED <<bi, log>>
    /\ UNCHANGED LowerVars
    /\ UNCHANGED BuildVars

\* ------------------------------------------------------------ specification

Next ==
    \/ CollectMembers
    \/ DeclareMember
    \/ RunInit
    \/ FuncBody
    \/ CompileBlock
    \/ SweepInstr
    \/ ResolveOperand
    \/ EmitOp
    \/ ExitInit
    \/ Unwind

Spec == Init /\ [][Next]_vars

\* NewPackage leaves its start: the step of CollectMembers, which is
\* possible for every package.
Enter == pc = "start" /\ pc' = "declare"

\* The steps of NewPackage after the members are collected.
Proceed ==
    \/ DeclareMember
    \/ RunInit
    \/ FuncBody
    \/ CompileBlock
    \/ SweepInstr
    \/ ResolveOperand
    \/ EmitOp
    \/ ExitInit
    \/ Unwind

\* NewPackage runs in the goroutine of its caller and nothing in it waits:
\* once called it starts, and as long as a step of it is possible, a step
\* is taken.
SpecLive == Init /\ [][Next]_vars /\ WF_pc(Enter) /\ WF_vars(Proceed)

\* Two calls of NewPackage on one package, with SetDebug before each.
NextDebug ==
    \/ SetDebug
    \/ Rerun
    \/ CollectMembers
    \/ DeclareMember
    \/ RunInit
    \/ FuncBody
    \/ CompileBlock
    \/ SweepInstr
    \/ ResolveOperand
    \/ EmitOp
    \/ ExitInit
    \/ Unwind

SpecDebug == InitDebug /\ [][NextDebug]_vars

\* ------------------------------------------------------ reading the result

\* The source function that was declared under a target name.
SourceOf(name) == goPkg.Members[CHOOSE n \in DOMAIN goPkg.Members : goPkg.Members[n].kind = "Function" /\ funcName(goPkg.Path, n) = name]
InstrIn(F, id) == F.blocks[id[1] + 1].Instrs[id[2]]

\* The places of the emitted operations, and the operation at a place.
SitesOf(T) == UNION {{[fn |-> T, blk |-> b - 1, n |-> k] : k \in DOMAIN bodies[T][b]} : b \in DOMAIN bodies[T]}
OpSites == UNION {SitesOf(T) : T \in DOMAIN bodies}
OpAt(s) == bodies[s.fn][s.blk + 1][s.n]
OperandExprs(op) == IF op.op = "Call" THEN <<op.callee>> \o op.args ELSE op.args

\* The classes of callee, in the words of the classifier's contract.
IsUnsafeNoOpInit(v) == v.vk = "Function" /\ ~v.recv /\ v.params = <<>> /\ v.name = "init" /\ v.pkg = "unsafe"
IsTrailingVariadic(v) == v.vk = "Function" /\ ~v.recv /\ v.params # <<>> /\ v.params[Len(v.params)] = NameValist
Elided(F, id) == InstrIn(F, id).kind = "Call" /\ IsUnsafeNoOpInit(InstrIn(F, id).ops[1])

\* e is the expression of source value v for the operation at place s of the
\* build of source function F: a
\* constant, the declared handle of a function or global, a parameter, or
\* the operation emitted earlier in the same target block for an instruction.
Lowered(F, v, e, s) ==
    CASE v.vk = "Const" -> e = [e |-> "Const", val |-> v.val]
      [] v.vk = "Global" -> e = [e |-> "Global", g |-> fullName(v.pkg, v.name)] /\ [kind |-> "Global", name |-> fullName(v.pkg, v.name)] \in Range(decls)
      [] v.vk = "Function" -> /\ e.e = "Func"
                              /\ e.h.name = funcName(v.pkg, v.name)
                              /\ e.h.id \in DOMAIN decls
                              /\ decls[e.h.id] = [kind |-> "Function", name |-> funcName(v.pkg, v.name)]
      [] v.vk = "Parameter" -> e = [e |-> "Param", fn |-> s.fn, idx |-> v.idx]
      [] v.vk = "Instr" -> IF Elided(F, v.id) THEN e = NilExpr
                           ELSE e.e = "Op" /\ e.fn = s.fn /\ e.blk = s.blk /\ e.n < s.n /\ OpAt(e).src = v.id
      [] OTHER -> FALSE

\* The sweep of the build of T has gone past instruction i of block b.
Swept(T, b, i) ==
    \E j \in DOMAIN inits :
        /\ inits[j].name = T
        /\ \/ j < ini
           \/ /\ j = ini
              /\ pc \in {"blocks", "instrs", "exit", "unwind", "panicked"}
              /\ b < bi \/ (b = bi /\ pc \in {"instrs", "unwind", "panicked"} /\ i < ip)

\* The instructions of a value kind of function F, as places <<b, i>>.
ValueInstrs(F) == UNION {{<<b - 1, i>> : i \in {k \in DOMAIN F.blocks[b].Instrs : F.blocks[b].Instrs[k].kind \in ValueKinds}} : b \in DOMAIN F.blocks}

\* ------------------------------------------------------------------ claims

\* C1: no deferred body build starts before the declare loop has processed
\* every member of the package; every function or global that an emitted
\* operation refers to resolved to the handle declared for it, wherever it is
\* positioned, and no reference fails to resolve.
C1_ForwardReferencesResolve ==
    /\ (ran # <<>> \/ fn # NilFn) => (mi > Len(members) /\ Range(members) = DOMAIN goPkg.Members)
    /\ err.site \notin {"funcOf", "varOf", "compileBlock"}
    /\ \A T \in DOMAIN bodies :
          LET F == SourceOf(T)
          IN  \A s \in SitesOf(T) :
                  LET op == OpAt(s)
                      es == OperandExprs(op)
                      ins == InstrIn(F, op.src)
                  IN  op.src # NoInstr =>
                          \A k \in DOMAIN es : ins.ops[k].vk \in {"Function", "Global"} => Lowered(F, ins.ops[k], es[k], s)

\* A built body of main calls f, and f is positioned and declared after main.
C1_Witness ==
    /\ pc = "done"
    /\ {"main", "f"} \subseteq DOMAIN goPkg.Members
    /\ goPkg.Members["main"].pos < goPkg.Members["f"].pos
    /\ \E s \in OpSites : s.fn = "main" /\ OpAt(s).op = "Call" /\ OpAt(s).callee.e = "Func" /\ OpAt(s).callee.h.name = "main.f" /\ FuncOf("main").id < OpAt(s).callee.h.id

\* C2: inside one block a value-producing instruction that has a lowering
\* rule and is no elided call of unsafe.init has at most one operation in
\* that block, exactly one once the sweep has visited it, and every
\* operation of the block that uses it has that one operation as its operand.
C2_LoweredOncePerBlock ==
    /\ \A T \in {n \in DOMAIN bodies : bodies[n] # <<>>} :
          LET F == SourceOf(T)
              ops == SitesOf(T)
          IN  \A id \in {x \in ValueInstrs(F) : InstrIn(F, x).kind # "Phi" /\ ~Elided(F, x)} :
                  LET sites == {s \in ops : s.blk = id[1] /\ OpAt(s).src = id}
                  IN  /\ Cardinality(sites) <= 1
                      /\ Swept(T, id[1], id[2]) => Cardinality(sites) = 1
    /\ \A T \in DOMAIN bodies :
          LET F == SourceOf(T)
          IN  \A s \in SitesOf(T) :
                  LET op == OpAt(s)
                      es == OperandExprs(op)
                      ins == InstrIn(F, op.src)
                  IN  (op.src # NoInstr /\ op.src[1] = s.blk) =>
                          \A k \in DOMAIN es :
                              (ins.ops[k].vk = "Instr" /\ ins.ops[k].id[1] = s.blk) => Lowered(F, ins.ops[k], es[k], s)

\* Two operations of one block use the one operation of an earlier
\* instruction of that block.
C2_Witness ==
    /\ pc = "done"
    /\ \E s1 \in OpSites : \E s2 \in OpSites :
          /\ s1.fn = s2.fn /\ s1.blk = s2.blk /\ s1.n < s2.n
          /\ OpAt(s1).src[1] = s1.blk /\ OpAt(s2).src[1] = s2.blk
          /\ \E e \in Range(OperandExprs(OpAt(s1))) \cap Range(OperandExprs(OpAt(s2))) :
                e.e = "Op" /\ OpAt(e).src[1] = s1.blk

\* C3: the entry block of the program entry function main starts with the
\* call of main.init: the call is there before any instruction of the block
\* is lowered, it is the first operation, and every other operation of the
\* block comes from an instruction.
C3_InitCallFirst ==
    /\ (pc = "instrs" /\ CurName = "main" /\ bi = 0) => bodies["main"][1] # <<>>
    /\ ("main" \in DOMAIN bodies /\ bodies["main"] # <<>> /\ bodies["main"][1] # <<>>) =>
          /\ bodies["main"][1][1] = Op("Call", [e |-> "Func", h |-> FuncOf("main.init")], <<>>, <<>>, NoInstr)
          /\ FuncOf("main.init") # NilFn
          /\ \A k \in 2..Len(bodies["main"][1]) : bodies["main"][1][k].src # NoInstr

\* The entry block of main was built with operations of its own after the call.
C3_Witness ==
    /\ pc = "done"
    /\ "main" \in DOMAIN bodies
    /\ bodies["main"] # <<>>
    /\ Len(bodies["main"][1]) >= 3

\* The instruction at which the lowerer stands: the next operand of the
\* instruction being lowered, or the instruction of the sweep.
Offender ==
    IF stack = <<>> THEN <<CurF.blocks[bi + 1].Index, ip>>
    ELSE Operands(InstrOf(stack[Len(stack)].id))[Len(stack[Len(stack)].vals) + 1].id

\* The kinds of instruction that have a lowering rule.
RuleKinds == {"Call", "BinOp", "UnOp", "IndexAddr", "Alloc", "Store", "Jump", "Return", "If"}

\* The instructions of function F, as places <<b, i>>.
AllInstrs(F) == UNION {{<<b - 1, i>> : i \in DOMAIN F.blocks[b].Instrs} : b \in DOMAIN F.blocks}

\* What holds in every state of an abort: a failure of the lowerer names the
\* kind of the instruction it stands at, a kind without a rule; NewPackage
\* returns only without failure; the sweep is never past an instruction
\* without a rule, and no operation comes from one.
C4_AbortState ==
    /\ err.site \in {"compileInstr", "compileInstrAndValue"} =>
          /\ pc \in {"unwind", "panicked"}
          /\ err.msg = InstrOf(Offender).kind
          /\ err.msg \notin RuleKinds
    /\ returned => (err = NoErr /\ pc = "done")
    /\ err # NoErr => pc \in {"unwind", "panicked"}
    /\ \A j \in DOMAIN ran :
          LET F == SourceOf(ran[j])
          IN  \A id \in AllInstrs(F) : InstrIn(F, id).kind \notin RuleKinds => ~Swept(ran[j], id[1], id[2])
    /\ \A T \in DOMAIN bodies :
          LET F == SourceOf(T)
          IN  \A s \in SitesOf(T) : OpAt(s).src # NoInstr => InstrIn(F, OpAt(s).src).kind \in RuleKinds

\* C4: an instruction of a kind without a lowering rule that reaches the
\* lowerer aborts the translation of the whole package there: the failure
\* names the kind, no later instruction is lowered, no remaining deferred
\* body is built, and NewPackage returns no package.
C4_AbortsAtUnsupportedInstr ==
    /\ []C4_AbortState
    /\ [][err # NoErr => UNCHANGED <<err, bodies, bvals, stack, ip, bi, ini, ran, decls, inits, returned>>]_vars

\* C4 as stated: a returned package has no function body, built or not,
\* with an instruction of a kind without a lowering rule.
C4_AnyUnsupportedInstrAborts ==
    returned =>
        \A n \in DOMAIN goPkg.Members :
            goPkg.Members[n].kind = "Function" =>
                \A id \in AllInstrs(goPkg.Members[n]) : InstrIn(goPkg.Members[n], id).kind \in RuleKinds

\* The translation failed at an instruction without a rule, with a later
\* instruction of the function and a later body left.
C4_Witness ==
    /\ pc = "panicked"
    /\ err.site = "compileInstrAndValue"
    /\ ini < Len(inits)
    /\ ip < Len(CurF.blocks[bi + 1].Instrs)

RECURSIVE DeclaredBy(_)
\* What the declare loop declares when it goes through the members ms: the
\* non-generic functions and the globals, up to a member that stops it.
DeclaredBy(ms) ==
    IF ms = <<>> THEN <<>>
    ELSE LET m == goPkg.Members[Head(ms)]
         IN  CASE m.kind = "Type" -> <<>>
               [] m.kind = "Function" /\ m.generic -> DeclaredBy(Tail(ms))
               [] m.kind = "Function" /\ ~m.generic -> <<[kind |-> "Function", name |-> funcName(goPkg.Path, m.name)]>> \o DeclaredBy(Tail(ms))
               [] m.kind = "Global" -> <<[kind |-> "Global", name |-> fullName(goPkg.Path, m.name)]>> \o DeclaredBy(Tail(ms))

\* C5: when the declare loop has ended, what it declared, in its order, is
\* what it would have declared had the member map been iterated in any
\* other order.
C5_OrderWhateverIteration ==
    ((pc = "inits" /\ ini = 1 /\ fn = NilFn) \/ err.site = "compileType") =>
        \A o \in IterationOrders : DeclaredBy(SortSlice(o)) = decls

\* C6: ctx.fn is the function of the running build from its start to its
\* end, also while a panic unwinds through it, and nil outside a build.
C6_CurrentFunction ==
    /\ pc \in {"body", "blocks", "instrs", "exit", "unwind"} => (fn # NilFn /\ fn = inits[ini].fn)
    /\ pc \in {"start", "declare", "inits", "done", "panicked"} => fn = NilFn

\* A build was aborted by an instruction without a rule, and has ended.
C6_Witness ==
    /\ pc = "panicked"
    /\ err.site \in {"compileInstr", "compileInstrAndValue"}
    /\ ran # <<>>
    /\ fn = NilFn

\* C7: a type member is no failure: the translation never fails in
\* compileType, and the declare loop goes on after a type member.
C7_TypeMemberIsNoFailure ==
    /\ err.site # "compileType"
    /\ \A i \in DOMAIN members : (goPkg.Members[members[i]].kind = "Type" /\ pc \in {"done", "panicked"}) => mi > i

\* C8: a call of a callee classified UnsafeNoOpInit has no operation, is
\* never among the instructions being lowered (neither callee nor argument
\* of it is resolved) and has no cache entry; an instruction that uses it
\* as operand gets the zero expression.
C8_UnsafeInitElided ==
    /\ \A T \in DOMAIN bodies :
          LET F == SourceOf(T)
          IN  \A s \in SitesOf(T) : OpAt(s).src # NoInstr => ~Elided(F, OpAt(s).src)
    /\ pc \in {"instrs", "unwind"} =>
          /\ \A k \in DOMAIN stack : ~Elided(CurF, stack[k].id)
          /\ \A id \in DOMAIN bvals : ~Elided(CurF, id)
    /\ \A T \in DOMAIN bodies :
          LET F == SourceOf(T)
          IN  \A s \in SitesOf(T) :
                  LET op == OpAt(s)
                      es == OperandExprs(op)
                  IN  op.src # NoInstr =>
                          \A k \in DOMAIN es :
                              LET v == InstrIn(F, op.src).ops[k]
                              IN  (v.vk = "Instr" /\ Elided(F, v.id)) => es[k] = NilExpr

\* A body was built in which the sweep met a call of unsafe.init and a later
\* instruction used that call as operand.
C8_Witness ==
    /\ pc = "done"
    /\ \E s \in OpSites :
          /\ OpAt(s).src # NoInstr
          /\ \E k \in DOMAIN OperandExprs(OpAt(s)) :
                LET v == InstrIn(SourceOf(s.fn), OpAt(s).src).ops[k]
                IN  v.vk = "Instr" /\ Elided(SourceOf(s.fn), v.id) /\ Swept(s.fn, v.id[1], v.id[2])

\* A call of a variadic callee whose last argument is a constant without value.
AbsentVariadic(ins) == ins.kind = "Call" /\ IsTrailingVariadic(ins.ops[1]) /\ Len(ins.ops) >= 2 /\ ins.ops[Len(ins.ops)] = Const(NilConst)

\* C9: the operation of a call of a HasTrailingVariadic callee with k+1
\* arguments, the last a constant without value, has exactly k arguments,
\* the expressions of the first k source arguments in their order; such a
\* call does not fail at its variadic tail, and once the sweep is past it
\* its operation is there.
C9_AbsentVariadicArgs ==
    /\ \A T \in DOMAIN bodies :
          LET F == SourceOf(T)
          IN  \A s \in SitesOf(T) :
                  LET op == OpAt(s)
                      ins == InstrIn(F, op.src)
                  IN  (op.src # NoInstr /\ AbsentVariadic(ins)) =>
                          /\ op.op = "Call"
                          /\ Len(op.args) = Len(ins.ops) - 2
                          /\ \A j \in DOMAIN op.args : Lowered(F, ins.ops[j + 1], op.args[j], s)
    /\ err.site \in {"compileVArg", "compileValues"} => ~AbsentVariadic(InstrOf(stack[Len(stack)].id))
    /\ \A j \in DOMAIN ran :
          LET F == SourceOf(ran[j])
          IN  \A id \in AllInstrs(F) :
                  (AbsentVariadic(InstrIn(F, id)) /\ Swept(ran[j], id[1], id[2])) =>
                      \E k \in DOMAIN bodies[ran[j]][id[1] + 1] : bodies[ran[j]][id[1] + 1][k].src = id

\* A call of fprintf with an instruction's value, a constant and no variadic
\* argument was emitted with two arguments.
C9_Witness ==
    /\ pc = "done"
    /\ \E s \in OpSites :
          /\ OpAt(s).src # NoInstr
          /\ AbsentVariadic(InstrIn(SourceOf(s.fn), OpAt(s).src))
          /\ Len(OpAt(s).args) = 2
          /\ OpAt(s).args[1].e = "Op"

\* How often x is in the sequence q.
Count(q, x) == Cardinality({i \in DOMAIN q : q[i] = x})

\* C10: a generic function member never has a declaration or a registered
\* body build; every other function member has exactly one declaration and
\* exactly one registered body build, for the handle of that declaration,
\* from the step of the declare loop that processes it on, so every one of
\* them has when the declare loop has gone through the members.
C10_GenericSkipped ==
    \A i \in DOMAIN members :
        LET m == goPkg.Members[members[i]]
            d == [kind |-> "Function", name |-> funcName(goPkg.Path, m.name)]
        IN  m.kind = "Function" =>
                IF m.generic
                THEN Count(decls, d) = 0 /\ \A j \in DOMAIN inits : inits[j].f # m.name /\ inits[j].name # d.name
                ELSE i < mi =>
                     /\ Count(decls, d) = 1
                     /\ Cardinality({j \in DOMAIN inits : inits[j].f = m.name}) = 1
                     /\ \A j \in DOMAIN inits : inits[j].f = m.name => (inits[j].name = d.name /\ decls[inits[j].fn.id] = d)

\* The declare loop went through a package with the generic G and the
\* non-generic f, and the package was returned.
C10_Witness ==
    /\ pc = "done"
    /\ {"G", "f"} \subseteq DOMAIN goPkg.Members
    /\ mi > Len(members)

\* C11: two calls of NewPackage on the same package, with the members in
\* the same order, that differ in nothing but the debug flags end alike:
\* the same declarations in the same order, the same operations in the same
\* order in every block, the same failure or none, a package returned by
\* both or by neither.
C11_DebugNoEffect ==
    (run = 2 /\ pc \in {"done", "panicked"} /\ members = first.members) =>
        /\ decls = first.decls
        /\ bodies = first.bodies
        /\ err = first.err
        /\ returned = first.returned

\* The second call ended under other flags than the first, with a body in
\* which a call was lowered and traced.
C11_Witness ==
    /\ run = 2
    /\ pc = "done"
    /\ first.flags # <<debugInstr, debugGoSSA>>
    /\ \E k \in DOMAIN log : log[k].tag = ">>> Call"
    /\ \E k \in DOMAIN log : log[k].tag = "==> FuncBody"
    /\ \E T \in DOMAIN bodies : \E b \in DOMAIN bodies[T] : \E k \in DOMAIN bodies[T][b] : bodies[T][b][k].op = "Call" /\ bodies[T][b][k].src # NoInstr

\* The builds that have ended without failure, by target name.
Built == {inits[j].name : j \in {k \in DOMAIN inits : k < ini}}

\* C12 as stated: after a function body has been built, every
\* value-producing instruction of the function has at most one operation in
\* the whole target function, also when a block other than its own uses it
\* as operand.
C12_OneOpPerInstrInFunction ==
    \A T \in Built :
        LET F == SourceOf(T)
        IN  \A id \in ValueInstrs(F) : Cardinality({s \in SitesOf(T) : OpAt(s).src = id}) <= 1

\* The function members without type parameters.
ConcreteFuncs == {n \in DOMAIN goPkg.Members : goPkg.Members[n].kind = "Function" /\ ~goPkg.Members[n].generic}

\* C13: the body builds run one at a time in the order of their
\* registration, which is the ascending order of position of the function
\* members without type parameters; none starts before the declare loop
\* has ended, none runs twice, and when NewPackage returns every registered
\* build has run.
C13_BuildsInRegistrationOrder ==
    /\ Len(ran) <= Len(inits)
    /\ \A j \in DOMAIN ran : ran[j] = inits[j].name
    /\ \A j \in DOMAIN inits : \A k \in DOMAIN inits :
          j < k => (inits[j].name # inits[k].name /\ goPkg.Members[inits[j].f].pos <= goPkg.Members[inits[k].f].pos)
    /\ {inits[j].f : j \in DOMAIN inits} \subseteq ConcreteFuncs
    /\ pc \in {"body", "blocks", "instrs", "exit", "unwind"} => Len(ran) = ini
    /\ pc = "inits" => Len(ran) = ini - 1
    /\ ran # <<>> => (mi > Len(members) /\ pc \notin {"start", "declare"} /\ {inits[j].f : j \in DOMAIN inits} = ConcreteFuncs)
    /\ pc = "done" => Len(ran) = Len(inits)

\* NewPackage returned after the builds of three or more functions, in a package
\* that also has a generic function.
C13_Witness ==
    /\ pc = "done"
    /\ Len(ran) >= 3
    /\ \E n \in DOMAIN goPkg.Members : goPkg.Members[n].kind = "Function" /\ goPkg.Members[n].generic

\* C14: a block build starts with an empty cache, before any instruction of
\* the block is lowered, and the initializer call never gets into it; while
\* a block is built, every expression in the cache is an operation that was
\* emitted during this build, into the target block of this block of this
\* function, for the instruction it is cached for.
C14_CacheOfThisBlock ==
    /\ (pc = "instrs" /\ ip = 1 /\ stack = <<>>) => bvals = <<>>
    /\ pc = "instrs" =>
          /\ cur = CurF.blocks[bi + 1].Index
          /\ \A id \in DOMAIN bvals :
                LET e == bvals[id]
                IN  /\ e.e = "Op"
                    /\ e.fn = fn.name
                    /\ e.blk = cur
                    /\ e.n \in DOMAIN bodies[fn.name][cur + 1]
                    /\ bodies[fn.name][cur + 1][e.n].src = id

\* The second block of a function is being built and its cache holds the
\* expression of an instruction of the first block, lowered again here.
C14_Witness ==
    /\ pc = "instrs"
    /\ bi = 1
    /\ \E id \in DOMAIN bvals : id[1] = 0
    /\ bodies[fn.name][1] # <<>>

\* C12: every value-producing instruction of a function has at most one
\* operation in each target block of the function, during the build and
\* after it: none if it is an elided call, and one in every block that the
\* sweep or an operand brought it to, its own or another.
C12_OneOpPerInstrPerBlock ==
    \A T \in DOMAIN bodies :
        LET F == SourceOf(T)
            ops == SitesOf(T)
        IN  \A id \in ValueInstrs(F) :
                /\ \A b \in DOMAIN bodies[T] : Cardinality({s \in ops : s.blk = b - 1 /\ OpAt(s).src = id}) <= 1
                /\ Elided(F, id) => \A s \in ops : OpAt(s).src # id

\* A body was built in which an instruction of the entry block has an
\* operation there and another one in the block that uses it.
C12_Witness ==
    /\ pc = "done"
    /\ \E T \in Built : \E s1 \in SitesOf(T) : \E s2 \in SitesOf(T) :
          /\ s1.blk = 0 /\ s2.blk = 1
          /\ OpAt(s1).src = OpAt(s2).src
          /\ OpAt(s1).src # NoInstr
          /\ OpAt(s1).src[1] = 0

\* Every operand of the instructions of block b of F that is an instruction
\* is an instruction of block b.
SelfContained(F, b) ==
    \A i \in DOMAIN F.blocks[b + 1].Instrs :
        \A k \in DOMAIN F.blocks[b + 1].Instrs[i].ops :
            F.blocks[b + 1].Instrs[i].ops[k].vk = "Instr" => F.blocks[b + 1].Instrs[i].ops[k].id[1] = b

\* C15: blocks are built in source order and the instructions of a block
\* go to the lowerer in source order: every instruction the sweep has
\* passed, but an elided call of unsafe.init, has an operation in the target
\* block of its block, read or not; no block after the one being built has
\* an operation and no instruction after the one the sweep is at has one;
\* in a block whose instruction operands are all of that block the
\* operations are in the source order of their instructions.
C15_SweepInSourceOrder ==
    /\ \A T \in {n \in DOMAIN bodies : bodies[n] # <<>>} :
          LET F == SourceOf(T)
          IN  /\ Len(bodies[T]) = Len(F.blocks)
              /\ \A id \in AllInstrs(F) :
                    (Swept(T, id[1], id[2]) /\ ~Elided(F, id)) =>
                        \E k \in DOMAIN bodies[T][id[1] + 1] : bodies[T][id[1] + 1][k].src = id
              /\ \A b \in DOMAIN bodies[T] :
                    SelfContained(F, b - 1) =>
                        \A k \in DOMAIN bodies[T][b] : \A m \in DOMAIN bodies[T][b] :
                            (k < m /\ bodies[T][b][k].src # NoInstr) =>
                                /\ bodies[T][b][m].src # NoInstr
                                /\ bodies[T][b][k].src[1] = b - 1
                                /\ bodies[T][b][m].src[1] = b - 1
                                /\ bodies[T][b][k].src[2] < bodies[T][b][m].src[2]
    /\ pc \in {"blocks", "instrs"} =>
          /\ \A b \in DOMAIN bodies[CurName] : (b - 1 > bi \/ (pc = "blocks" /\ b - 1 = bi)) => bodies[CurName][b] = <<>>
          /\ pc = "instrs" =>
                \A s \in SitesOf(CurName) :
                    (OpAt(s).src # NoInstr /\ OpAt(s).src[1] = bi) => OpAt(s).src[2] <= ip
    /\ \A T \in Built : bodies[T] # <<>> \/ SourceOf(T).blocks = <<>>

\* A body was built with an operation for a value that nothing reads, in a
\* block with three operations or more.
C15_Witness ==
    /\ pc = "done"
    /\ \E T \in Built : \E s \in SitesOf(T) :
          /\ OpAt(s).op \in {"Alloc", "BinOp", "UnOp", "IndexAddr", "Call"}
          /\ OpAt(s).src # NoInstr
          /\ Len(bodies[T][s.blk + 1]) >= 3
          /\ \A u \in SitesOf(T) : \A k \in DOMAIN OperandExprs(OpAt(u)) : OperandExprs(OpAt(u))[k] # [e |-> "Op", fn |-> T, blk |-> s.blk, n |-> s.n]

\* C16: the block at place i of a function has index i and is built into
\* target block i; the operation of a jump goes to the target block with
\* the index of the first successor of its block, the operation of a
\* branch has the expression of the condition and goes to the target blocks
\* with the indices of the first and the second successor, in this order;
\* no other operation has a target, and no jump or branch is in the cache.
C16_TopologyPreserved ==
    /\ \A T \in {n \in DOMAIN bodies : bodies[n] # <<>>} :
          LET F == SourceOf(T)
          IN  /\ \A b \in DOMAIN F.blocks : F.blocks[b].Index = b - 1
              /\ \A s \in SitesOf(T) :
                    LET op == OpAt(s)
                        ins == InstrIn(F, op.src)
                        succs == F.blocks[op.src[1] + 1].Succs
                    IN  IF op.src = NoInstr THEN op.targets = <<>>
                        ELSE /\ op.op = ins.kind
                             /\ ins.kind \in EffectKinds => op.src[1] = s.blk
                             /\ CASE ins.kind = "Jump" -> op.targets = <<succs[1]>> /\ op.args = <<>>
                                  [] ins.kind = "If" -> /\ op.targets = <<succs[1], succs[2]>>
                                                        /\ Len(op.args) = 1
                                                        /\ Lowered(F, ins.ops[1], op.args[1], s)
                                  [] OTHER -> op.targets = <<>>
                             /\ \A k \in DOMAIN op.targets : op.targets[k] + 1 \in DOMAIN bodies[T]
    /\ pc \in {"instrs", "unwind"} =>
          /\ cur = CurF.blocks[bi + 1].Index
          /\ \A id \in DOMAIN bvals : InstrOf(id).kind \notin {"Jump", "If"}

\* A body was built with a jump and with a branch to two different blocks
\* on a value that was lowered in the block of the branch.
C16_Witness ==
    /\ pc = "done"
    /\ \E T \in Built :
          /\ \E s \in SitesOf(T) : OpAt(s).op = "If" /\ OpAt(s).targets[1] # OpAt(s).targets[2] /\ OpAt(s).args[1].e = "Op"
          /\ \E s \in SitesOf(T) : OpAt(s).op = "Jump"

\* C17: funcKind returns fnUnsafeInit exactly for a function without
\* receiver and without parameters that is named init and is of package
\* unsafe, fnHasVArg exactly for a function without receiver whose last
\* parameter has the name of the variadic marker, and fnNormal for every
\* other value, so for every method and every value that is no function.
C17_Classification ==
    kindOut # <<>> =>
        /\ kindOut[1] \in {fnNormal, fnHasVArg, fnUnsafeInit}
        /\ kindOut[1] = fnUnsafeInit <=> IsUnsafeNoOpInit(kindIn)
        /\ kindOut[1] = fnHasVArg <=> IsTrailingVariadic(kindIn)
        /\ kindOut[1] = fnNormal <=> (~IsUnsafeNoOpInit(kindIn) /\ ~IsTrailingVariadic(kindIn))
        /\ kindIn.vk # "Function" => kindOut[1] = fnNormal
        /\ (kindIn.vk = "Function" /\ kindIn.recv) => kindOut[1] = fnNormal

\* funcKind returned for a method whose last parameter has the name of the
\* variadic marker.
C17_Witness ==
    /\ kindOut # <<>>
    /\ kindIn.vk = "Function"
    /\ kindIn.recv
    /\ Len(kindIn.params) = 2
    /\ kindIn.params[2] = NameValist

\* C18: operations are emitted operands first. An operand expression that
\* is an operation is an operation emitted earlier in the same target block,
\* and it is the operation of the source operand at that position (callee
\* first, then the arguments from the left); an operand that is an
\* instruction with an operation of its own has such an expression. While
\* an instruction is being lowered, the operands resolved so far are its
\* first operands in their order, their operations are already in the
\* block, and the instruction lowered on demand is its next operand.
C18_OperandsFirst ==
    /\ \A T \in DOMAIN bodies :
          LET F == SourceOf(T)
          IN  \A s \in SitesOf(T) :
                  LET op == OpAt(s)
                      es == OperandExprs(op)
                  IN  op.src # NoInstr =>
                          \A k \in DOMAIN es :
                              LET v == InstrIn(F, op.src).ops[k]
                              IN  /\ es[k].e = "Op" =>
                                        /\ es[k].fn = s.fn
                                        /\ es[k].blk = s.blk
                                        /\ es[k].n < s.n
                                        /\ v.vk = "Instr"
                                        /\ OpAt(es[k]).src = v.id
                                  /\ (v.vk = "Instr" /\ ~Elided(F, v.id)) => es[k].e = "Op"
    /\ pc \in {"instrs", "unwind"} =>
          \A j \in DOMAIN stack :
              LET ops == InstrOf(stack[j].id).ops
                  got == stack[j].vals
              IN  /\ Len(got) <= Len(ops)
                  /\ \A k \in DOMAIN got :
                        got[k].e = "Op" =>
                            /\ got[k].fn = fn.name
                            /\ got[k].blk = cur
                            /\ got[k].n <= Len(bodies[fn.name][cur + 1])
                            /\ ops[k].vk = "Instr"
                            /\ OpAt(got[k]).src = ops[k].id
                  /\ j < Len(stack) =>
                        /\ Len(got) < Len(ops)
                        /\ ops[Len(got) + 1].vk = "Instr"
                        /\ ops[Len(got) + 1].id = stack[j + 1].id

\* A build ended in which an operation has an operand of another block of
\* the source, lowered on demand right before the operation was emitted.
C18_Witness ==
    /\ pc = "done"
    /\ \E s \in OpSites :
          /\ OpAt(s).src # NoInstr
          /\ \E k \in DOMAIN OperandExprs(OpAt(s)) :
                /\ OperandExprs(OpAt(s))[k].e = "Op"
                /\ OperandExprs(OpAt(s))[k].n = s.n - 1
                /\ InstrIn(SourceOf(s.fn), OpAt(s).src).ops[k].id[1] # s.blk

\* NewPackage has returned to its caller or its panic has left it.
Ended == pc \in {"done", "panicked"}

\* The instruction at place x of a function stands before the one at place
\* y: in an earlier block, or earlier in the same block.
Before(x, y) == x[1] < y[1] \/ (x[1] = y[1] /\ x[2] < y[2])

\* The number of instructions of source function F.
InstrCount(F) == Cardinality(UNION {{<<b, i>> : i \in DOMAIN F.blocks[b].Instrs} : b \in DOMAIN F.blocks})

\* The on-demand resolution is bounded: each instruction being lowered for
\* another one stands before it in the source function, so no instruction
\* is lowered inside its own lowering and the nesting is no deeper than the
\* function has instructions; a target block never holds more operations
\* than the source function has instructions, and the initializer call.
ResolutionBounded ==
    /\ pc \in {"instrs", "unwind"} =>
          /\ \A j \in DOMAIN stack : j > 1 => Before(stack[j].id, stack[j - 1].id)
          /\ \A j \in DOMAIN stack : \A k \in DOMAIN stack : j # k => stack[j].id # stack[k].id
          /\ Len(stack) <= InstrCount(CurF)
    /\ \A T \in DOMAIN bodies :
          LET n == InstrCount(SourceOf(T))
          IN  \A b \in DOMAIN bodies[T] : Len(bodies[T][b]) <= n + 1

\* C19: the translation of a package terminates. The on-demand resolution
\* of operands is bounded, also along chains that cross blocks, and
\* NewPackage eventually returns the package or aborts.
C19_Terminates == []ResolutionBounded /\ <>Ended

\* An instruction of another block is being lowered on demand for the
\* instruction the sweep is at.
C19_Witness ==
    /\ pc = "instrs"
    /\ Len(stack) = 2
    /\ stack[2].id[1] # stack[1].id[1]

====
